---------------------------- MODULE Spec2Model ----------------------------
(***************************************************************************)
(* A model of app.py, the IPO DRHP analyzer: the adapter that cuts a JSON  *)
(* object out of the extraction service's reply (get_structured_data), the *)
(* signal engine (compute_flags with its nested cagr), and the Streamlit   *)
(* handler that sequences them (main).                                     *)
(*                                                                         *)
(* Python values are tagged records: None/null, int, float, str, list,     *)
(* dict.  A str is a sequence of one-character strings, so that lower(),   *)
(* the "in" substring test and float() are computed, not assumed.  A float *)
(* is a fixed-point number counted in units of 1/Scale, every operation    *)
(* rounding toward minus infinity: TLC has no reals, and the properties    *)
(* checked here do not depend on the last digits of an IEEE double.        *)
(***************************************************************************)
EXTENDS Integers, Sequences, FiniteSets, TLC

VARIABLES
    pc,             \* position of main() in the current script run
    uploaded_file,  \* st.file_uploader's value: Null or a document
    text,           \* extract_pdf_text's result
    raw,            \* response.text of the extraction call (a token sequence)
    data,           \* get_structured_data's outcome
    flags,          \* compute_flags's outcome
    comment,        \* get_commentary's result
    sent,           \* what get_commentary was given
    shown,          \* what the st.* display calls were given
    uncaught,       \* the exception that left main(), if any
    log,            \* the calls main() made in this run, in order
    series,         \* input of cagr (pure-function check)
    result          \* output of cagr (pure-function check)

vars == <<pc, uploaded_file, text, raw, data, flags, comment, sent, shown,
          uncaught, log, series, result>>

-----------------------------------------------------------------------------
(* Bounds of the model.                                                    *)

MaxLen == 3        \* longest series given to cagr on its own
MaxFin == 2        \* longest revenue / trade_receivables series of a record
MaxRpt == 2        \* longest rpt_revenue_pct series of a record
MaxItems == 2      \* most use_of_proceeds items of a record
MaxRaw == 5        \* longest reply given to the adapter on its own

-----------------------------------------------------------------------------
(* Python values.                                                          *)

Null == [t |-> "null"]
Num(n) == [t |-> "num", n |-> n]
Float(f) == [t |-> "float", f |-> f]
Bool(b) == [t |-> "bool", b |-> b]
Str(s) == [t |-> "str", s |-> s]
List(a) == [t |-> "list", a |-> a]
Dict(o) == [t |-> "dict", o |-> o]

NoValue == [t |-> "unset"]    \* a local of main() not assigned yet

\* One unit of a float is 1/Scale.
Scale == 100

Returned(v) == [raised |-> FALSE, value |-> v]
Raised(e) == [raised |-> TRUE, exc |-> e]

\* bool(v), as "if v", "a and b", "a or b" evaluate it.
Truthy(v) ==
    CASE v.t = "null" -> FALSE
      [] v.t = "num" -> v.n # 0
      [] v.t = "float" -> v.f # 0
      [] v.t = "bool" -> v.b
      [] v.t = "str" -> Len(v.s) > 0
      [] v.t = "list" -> Len(v.a) > 0
      [] v.t = "dict" -> DOMAIN v.o # {}
      [] OTHER -> FALSE

\* d.get(k) of a dict d: None when the key is missing.
Get(d, k) == IF k \in DOMAIN d.o THEN d.o[k] ELSE Null

\* a or b
Or(a, b) == IF Truthy(a) THEN a ELSE b

\* s[-1] of a non-empty list
Last(s) == s.a[Len(s.a)]

IsNumber(v) == v.t \in {"num", "float"}

\* The value of a number in float units.
Units(v) == IF v.t = "num" THEN v.n * Scale ELSE v.f

-----------------------------------------------------------------------------
(* Strings.                                                                *)

Upper == <<"A","B","C","D","E","F","G","H","I","J","K","L","M",
           "N","O","P","Q","R","S","T","U","V","W","X","Y","Z">>
Lower == <<"a","b","c","d","e","f","g","h","i","j","k","l","m",
           "n","o","p","q","r","s","t","u","v","w","x","y","z">>
Digits == <<"0","1","2","3","4","5","6","7","8","9">>

IndexIn(c, alphabet) ==
    IF \E i \in 1..Len(alphabet) : alphabet[i] = c
    THEN CHOOSE i \in 1..Len(alphabet) : alphabet[i] = c
    ELSE 0

\* str.lower(), on character sequences
lower(s) ==
    [i \in 1..Len(s) |->
        IF IndexIn(s[i], Upper) > 0 THEN Lower[IndexIn(s[i], Upper)] ELSE s[i]]

\* needle in hay
Contains(hay, needle) ==
    \E i \in 0..(Len(hay) - Len(needle)) :
        \A j \in 1..Len(needle) : hay[i + j] = needle[j]

RECURSIVE DigitsValue(_)
DigitsValue(s) ==
    IF s = <<>> THEN 0
    ELSE 10 * DigitsValue(SubSeq(s, 1, Len(s) - 1)) + (IndexIn(s[Len(s)], Digits) - 1)

AllDigits(s) == Len(s) > 0 /\ \A i \in 1..Len(s) : IndexIn(s[i], Digits) > 0

\* float(value): a number converts; a str converts when it is an optionally
\* signed run of digits (the only numeric spellings drawn here) and raises
\* ValueError otherwise; a list, a dict or None raises TypeError.
float(v) ==
    CASE IsNumber(v) -> Returned(Float(Units(v)))
      [] v.t = "bool" -> Returned(Float(IF v.b THEN Scale ELSE 0))
      [] v.t = "str" ->
            IF AllDigits(v.s) THEN Returned(Float(DigitsValue(v.s) * Scale))
            ELSE IF Len(v.s) > 1 /\ v.s[1] = "-" /\ AllDigits(Tail(v.s))
                 THEN Returned(Float(0 - DigitsValue(Tail(v.s)) * Scale))
                 ELSE Raised("ValueError")
      [] OTHER -> Raised("TypeError")

-----------------------------------------------------------------------------
(* Float arithmetic in units of 1/Scale.                                   *)

\* a / b for floats a, b (b # 0)
FDiv(a, b) == (a * Scale) \div b

\* b^n, or cap + 1 as soon as the power exceeds cap (keeps the products small)
RECURSIVE PowCapped(_, _, _)
PowCapped(b, n, cap) ==
    IF n = 0 THEN 1
    ELSE LET p == PowCapped(b, n - 1, cap)
         IN  IF p > cap \/ (b > 0 /\ p > cap \div b) THEN cap + 1 ELSE p * b

RECURSIVE RootSearch(_, _, _, _)
RootSearch(lo, hi, n, cap) ==
    \* the largest r in lo..hi with r^n <= cap, given lo^n <= cap
    IF lo = hi THEN lo
    ELSE LET mid == (lo + hi + 1) \div 2
         IN  IF PowCapped(mid, n, cap) <= cap
             THEN RootSearch(mid, hi, n, cap)
             ELSE RootSearch(lo, mid - 1, n, cap)

\* q ** (1.0 / n) for a float q > 0 and an int n >= 1
FRoot(q, n) ==
    LET cap == q * PowCapped(Scale, n - 1, 2000000000 \div (q + 1))
    IN  RootSearch(0, IF q > Scale THEN q ELSE Scale, n, cap)

-----------------------------------------------------------------------------
(* compute_flags and its nested cagr.                                      *)

\* The loop of cagr over series[i..]: the floats appended to "cleaned".
RECURSIVE CleanFrom(_, _)
CleanFrom(a, i) ==
    IF i > Len(a) THEN <<>>
    ELSE LET x == a[i]
             value == IF x.t = "list" /\ Len(x.a) >= 2 THEN x.a[2] ELSE x
             rest == CleanFrom(a, i + 1)
         IN  IF value = Null THEN rest
             ELSE IF float(value).raised THEN rest
             ELSE <<float(value).value.f>> \o rest

\* Periods with a fault: the count of retained values taken for the period count.
PeriodsCount(cleaned) == Len(cleaned)

\* n = len(cleaned) - 1, as a definition of its own
Periods(cleaned) == Len(cleaned) - 1

cagr(s) ==
    IF ~Truthy(s) \/ Len(s.a) < 2 THEN Null
    ELSE LET cleaned == CleanFrom(s.a, 1)
         IN  IF Len(cleaned) < 2 THEN Null
             ELSE LET first == cleaned[1]
                      last == cleaned[Len(cleaned)]
                  IN  IF first <= 0 \/ last <= 0 THEN Null
                      ELSE Float(FRoot(FDiv(last, first), Periods(cleaned)) - Scale)

\* GrowFaster with a fault: the 0.05 buffer forgotten.
GrowFasterNoBuffer(rev_cagr, rec_cagr) ==
    rev_cagr # Null /\ rec_cagr # Null /\ rec_cagr.f > rev_cagr.f

\* rec_cagr > rev_cagr + 0.05
GrowFaster(rev_cagr, rec_cagr) ==
    rev_cagr # Null /\ rec_cagr # Null /\ rec_cagr.f > rev_cagr.f + Scale \div 20

\* TrueDiv with a fault: the operands swapped.
TrueDivSwapped(a, b) ==
    IF IsNumber(a) /\ IsNumber(b)
    THEN IF Units(a) = 0 THEN Raised("ZeroDivisionError")
         ELSE Returned(Float(FDiv(Units(b), Units(a))))
    ELSE Raised("TypeError")

\* a / b
TrueDiv(a, b) ==
    IF IsNumber(a) /\ IsNumber(b)
    THEN IF Units(b) = 0 THEN Raised("ZeroDivisionError")
         ELSE Returned(Float(FDiv(Units(a), Units(b))))
    ELSE Raised("TypeError")

\* RecToRev with a fault: the latest entries tested with "is not None", not for truth.
RecToRevNoneTest(rev, rec) ==
    IF Truthy(rev) /\ Truthy(rec) /\ Last(rev) # Null /\ Last(rec) # Null
    THEN TrueDiv(Last(rec), Last(rev))
    ELSE Returned(Null)

\* lines 135-138: the outcome for rec_to_rev_latest
RecToRev(rev, rec) ==
    IF Truthy(rev) /\ Truthy(rec) /\ Truthy(Last(rev)) /\ Truthy(Last(rec))
    THEN TrueDiv(Last(rec), Last(rev))
    ELSE Returned(Null)

\* GtInt with a fault: >= for >.
GeInt(a, k) ==
    IF IsNumber(a) THEN Returned(Bool(Units(a) >= k * Scale)) ELSE Raised("TypeError")

\* a > k for an int literal k
GtInt(a, k) ==
    IF IsNumber(a) THEN Returned(Bool(Units(a) > k * Scale)) ELSE Raised("TypeError")

\* lines 140-145: the outcome for <<rpt_share_latest, rpt_share_high>>
RptShare(rpt) ==
    IF Truthy(rpt) /\ Last(rpt) # Null
    THEN IF GtInt(Last(rpt), 20).raised THEN GtInt(Last(rpt), 20)
         ELSE Returned(<<Last(rpt), GtInt(Last(rpt), 20).value>>)
    ELSE Returned(<<Null, Bool(FALSE)>>)

General == <<"g","e","n","e","r","a","l">>

\* One pass of the loop body of lines 149-156 on the sums so far.
ProceedsStep(acc, item) ==
    IF acc.raised THEN acc
    ELSE IF item.t # "dict" THEN Raised("AttributeError")
    ELSE LET amt == Get(item, "amount_crore")
             c == Or(Get(item, "category"), Str(<<>>))
         IN  IF c.t # "str" THEN Raised("AttributeError")
             ELSE IF amt = Null THEN acc
             ELSE IF ~IsNumber(amt) THEN Raised("TypeError")
             ELSE Returned([total_proc |-> acc.value.total_proc + Units(amt),
                            gcp |-> IF Contains(lower(c.s), General)
                                    THEN acc.value.gcp + Units(amt)
                                    ELSE acc.value.gcp])

RECURSIVE ProceedsLoop(_, _)
ProceedsLoop(uop, k) ==
    \* the sums after the first k items
    IF k = 0 THEN Returned([total_proc |-> 0, gcp |-> 0])
    ELSE ProceedsStep(ProceedsLoop(uop, k - 1), uop[k])

\* line 157
GcpPct(sums) ==
    IF sums.total_proc > 0 THEN Float(FDiv(sums.gcp, sums.total_proc) * 100) ELSE Null

\* GcpHigh with a fault: >= for >.
GcpHighInclusive(gcp_pct) == gcp_pct # Null /\ gcp_pct.f >= 30 * Scale

\* line 159
GcpHigh(gcp_pct) == gcp_pct # Null /\ gcp_pct.f > 30 * Scale

compute_flags(d) ==
    LET fin == Or(Get(d, "financials"), Dict(<<>>))
        rev == Or(Get(fin, "revenue"), List(<<>>))
        rec == Or(Get(fin, "trade_receivables"), List(<<>>))
        rpt == Or(Get(fin, "rpt_revenue_pct"), List(<<>>))
        uop == Or(Get(d, "use_of_proceeds"), List(<<>>))
        rev_cagr == cagr(rev)
        rec_cagr == cagr(rec)
        ratio == RecToRev(rev, rec)
        share == RptShare(rpt)
        sums == ProceedsLoop(uop.a, Len(uop.a))
    IN  IF ratio.raised THEN ratio
        ELSE IF share.raised THEN share
        ELSE IF sums.raised THEN sums
        ELSE Returned(Dict(
              [revenue_cagr |-> rev_cagr,
               receivables_cagr |-> rec_cagr,
               receivables_grow_faster |-> Bool(GrowFaster(rev_cagr, rec_cagr)),
               rec_to_rev_latest |-> ratio.value,
               rpt_share_latest |-> share.value[1],
               rpt_share_high |-> share.value[2],
               gcp_pct |-> GcpPct(sums.value),
               gcp_high |-> Bool(GcpHigh(GcpPct(sums.value)))]))

-----------------------------------------------------------------------------
(* get_structured_data: the reply of the extraction call is a sequence of  *)
(* lexemes; "{" and "}" are the only lexemes that hold a brace.            *)

LB == [k |-> "{"]
RB == [k |-> "}"]
LSQ == [k |-> "["]
RSQ == [k |-> "]"]
Comma == [k |-> ","]
Key(name) == [k |-> "key", name |-> name]    \* "name":
Val(v) == [k |-> "val", v |-> v]             \* a number, a string or null
Txt == [k |-> "txt"]                         \* prose or fencing, not JSON
Ws == [k |-> "ws"]                           \* whitespace

NotWs(tok) == tok # Ws

\* str.strip()
RECURSIVE lstrip(_)
lstrip(s) == IF s # <<>> /\ Head(s) = Ws THEN lstrip(Tail(s)) ELSE s
RECURSIVE rstrip(_)
rstrip(s) ==
    IF s # <<>> /\ s[Len(s)] = Ws THEN rstrip(SubSeq(s, 1, Len(s) - 1)) ELSE s
strip(s) == rstrip(lstrip(s))

Positions(s, tok) == {i \in 1..Len(s) : s[i] = tok}
Min(S) == CHOOSE x \in S : \A y \in S : x <= y
Max(S) == CHOOSE x \in S : \A y \in S : x >= y

\* str.find(tok): the lowest 0-based index, or -1
find(s, tok) == IF Positions(s, tok) = {} THEN 0 - 1 ELSE Min(Positions(s, tok)) - 1

\* rfind with a fault: the first "}" taken for the last.
rfindFirst(s, tok) == find(s, tok)

\* str.rfind(tok): the highest 0-based index, or -1
rfind(s, tok) == IF Positions(s, tok) = {} THEN 0 - 1 ELSE Max(Positions(s, tok)) - 1

\* s[a:b], with Python's treatment of negative and out-of-range indices
Slice(s, a, b) ==
    LET clamp(i) == IF i < 0 THEN (IF i + Len(s) < 0 THEN 0 ELSE i + Len(s))
                    ELSE IF i > Len(s) THEN Len(s) ELSE i
    IN  SubSeq(s, clamp(a) + 1, clamp(b))

\* response.text, a str of lexemes
Text(s) == [t |-> "text", s |-> s]

Fail == [ok |-> FALSE]
Parsed(v, next) == [ok |-> TRUE, value |-> v, next |-> next]

\* d[name] = v on the function d
Store(d, name, v) == [j \in DOMAIN d \cup {name} |-> IF j = name THEN v ELSE d[j]]

RECURSIVE ParseValue(_, _), ParseMembers(_, _, _), ParseElements(_, _, _)

\* A JSON value starting at s[i].
ParseValue(s, i) ==
    IF i > Len(s) THEN Fail
    ELSE CASE s[i].k = "val" -> Parsed(s[i].v, i + 1)
           [] s[i].k = "{" ->
                 IF i + 1 <= Len(s) /\ s[i + 1] = RB THEN Parsed(Dict(<<>>), i + 2)
                 ELSE ParseMembers(s, i + 1, <<>>)
           [] s[i].k = "[" ->
                 IF i + 1 <= Len(s) /\ s[i + 1] = RSQ THEN Parsed(List(<<>>), i + 2)
                 ELSE ParseElements(s, i + 1, <<>>)
           [] OTHER -> Fail

\* The members of an object from s[i] on; a repeated key keeps its last value.
ParseMembers(s, i, acc) ==
    IF i > Len(s) \/ s[i].k # "key" THEN Fail
    ELSE LET r == ParseValue(s, i + 1)
         IN  IF ~r.ok \/ r.next > Len(s) THEN Fail
             ELSE IF s[r.next] = RB
                  THEN Parsed(Dict(Store(acc, s[i].name, r.value)), r.next + 1)
             ELSE IF s[r.next] = Comma
                  THEN ParseMembers(s, r.next + 1, Store(acc, s[i].name, r.value))
             ELSE Fail

\* The elements of an array from s[i] on.
ParseElements(s, i, acc) ==
    LET r == ParseValue(s, i)
    IN  IF ~r.ok \/ r.next > Len(s) THEN Fail
        ELSE IF s[r.next] = RSQ THEN Parsed(List(Append(acc, r.value)), r.next + 1)
        ELSE IF s[r.next] = Comma THEN ParseElements(s, r.next + 1, Append(acc, r.value))
        ELSE Fail

\* json.loads: one value, whitespace allowed around lexemes, nothing after it.
json_loads(s) ==
    LET toks == SelectSeq(s, NotWs)
        r == ParseValue(toks, 1)
    IN  IF r.ok /\ r.next = Len(toks) + 1 THEN Returned(r.value)
        ELSE Raised("JSONDecodeError")

\* Lines 68-81 of get_structured_data, on the reply's text.
ParseReply(reply) ==
    LET stripped == strip(reply)
        start == find(stripped, LB)
        end == rfind(stripped, RB)
    IN  json_loads(Slice(stripped, start, end + 1))

-----------------------------------------------------------------------------
(* Inputs.                                                                 *)

SeqsUpTo(S, n) == UNION {[1..k -> S] : k \in 0..n}

Absent == [t |-> "absent"]    \* a key the dict does not hold

\* The dict of the keys of f that are not Absent.
MkDict(f) == Dict([k \in {j \in DOMAIN f : f[j] # Absent} |-> f[k]])

\* A field that is missing, null, or a list (possibly empty) over E.
ListChoices(E, n) == {Absent, Null} \cup {List(s) : s \in SeqsUpTo(E, n)}

Abc == Str(<<"a","b","c">>)
Str110 == Str(<<"1","1","0">>)
FY21 == Str(<<"F","Y","2","1">>)
Pair(label, v) == List(<<label, v>>)

GCP == Str(<<"G","e","n","e","r","a","l"," ","c","o","r","p","o","r","a","t","e",
             " ","p","u","r","p","o","s","e","s">>)
GENERAL == Str(<<"G","E","N","E","R","A","L">>)
Debt == Str(<<"D","e","b","t"," ","r","e","p","a","y","m","e","n","t">>)
Gen == Str(<<"G","e","n","e","r","i","c">>)

\* Entries of a series given to cagr on its own.
CagrEntries ==
    {Null, Num(0), Num(0 - 5), Num(100), Num(144), Abc, Str110,
     Pair(FY21, Num(121)), Pair(FY21, Null), List(<<Num(100)>>)}

RevEntries == {Null, Num(0), Num(100), Num(110), Abc}
RecEntries == {Null, Num(0), Num(100), Num(115), Num(120), Pair(FY21, Num(120))}
RptEntries == {Null, Num(5), Num(20), Num(25), Abc, Pair(FY21, Num(25))}
Categories == {Absent, Null, GCP, GENERAL, Debt, Gen}
Amounts == {Absent, Null, Num(30), Num(70), Num(0 - 30), Abc}

Items == {MkDict([category |-> c, amount_crore |-> a]) : c \in Categories, a \in Amounts}

MkFin(rv, rc, rp) ==
    MkDict([revenue |-> rv, trade_receivables |-> rc, rpt_revenue_pct |-> rp])

MkData(fin, uop) == MkDict([financials |-> fin, use_of_proceeds |-> uop])

\* The end-to-end record of the documentation's example.
ExampleRev == List(<<Num(100), Num(110), Num(121)>>)
ExampleRec == List(<<Num(10), Num(15), Num(30)>>)
ExampleRpt == List(<<Num(5), Num(5), Num(25)>>)
ExampleUop ==
    List(<<MkDict([category |-> GCP, amount_crore |-> Num(40)]),
           MkDict([category |-> Debt, amount_crore |-> Num(60)])>>)

\* The records given to compute_flags on its own: each family varies one
\* group of fields over all its shapes, beside the example's other fields.
FinancialsVaried(d) ==
    \E rv \in ListChoices(RevEntries, MaxFin), rc \in ListChoices(RecEntries, MaxFin) :
        d = MkData(MkFin(rv, rc, ExampleRpt), ExampleUop)

RptVaried(d) ==
    \E rp \in ListChoices(RptEntries, MaxRpt) :
        d = MkData(MkFin(ExampleRev, ExampleRec, rp), ExampleUop)

ProceedsVaried(d) ==
    \E u \in ListChoices(Items, MaxItems) :
        d = MkData(MkFin(ExampleRev, ExampleRec, ExampleRpt), u)

TopLevelVaried(d) ==
    \E f \in {Absent, Null, Dict(<<>>)}, u \in {Absent, Null, List(<<>>)} :
        d = MkData(f, u)

-----------------------------------------------------------------------------
(* cagr on its own.                                                        *)

Unused ==
    /\ uploaded_file = NoValue /\ text = NoValue /\ comment = NoValue
    /\ sent = NoValue /\ shown = NoValue /\ uncaught = NoValue /\ log = <<>>

InitCagr ==
    /\ pc = "cagr"
    /\ series \in {List(s) : s \in SeqsUpTo(CagrEntries, MaxLen)}
    /\ result = NoValue
    /\ raw = NoValue /\ data = NoValue /\ flags = NoValue
    /\ Unused

CallCagr ==
    /\ pc = "cagr"
    /\ result' = cagr(series)
    /\ pc' = "cagr_done"
    /\ UNCHANGED <<uploaded_file, text, raw, data, flags, comment, sent, shown,
                   uncaught, log, series>>

NextCagr == CallCagr

SpecCagr == InitCagr /\ [][NextCagr]_vars

-----------------------------------------------------------------------------
(* compute_flags on its own.                                               *)

InitFlags ==
    /\ pc = "compute_flags"
    /\ \/ FinancialsVaried(data)
       \/ RptVaried(data)
       \/ ProceedsVaried(data)
       \/ TopLevelVaried(data)
    /\ flags = NoValue
    /\ raw = NoValue /\ series = NoValue /\ result = NoValue
    /\ Unused

CallComputeFlags ==
    /\ pc = "compute_flags"
    /\ flags' = compute_flags(data)
    /\ pc' = "compute_flags_done"
    /\ UNCHANGED <<uploaded_file, text, raw, data, comment, sent, shown,
                   uncaught, log, series, result>>

NextFlags == CallComputeFlags

SpecFlags == InitFlags /\ [][NextFlags]_vars

-----------------------------------------------------------------------------
(* Properties of cagr.                                                     *)

\* What an element of a raw series contributes.
Contribution(x) == IF x.t = "list" /\ Len(x.a) >= 2 THEN x.a[2] ELSE x

Coercible(v) == v # Null /\ ~float(v).raised

\* The values a raw series retains, in order.
Retained(a) ==
    LET kept == SelectSeq([i \in 1..Len(a) |-> Contribution(a[i])], Coercible)
    IN  [i \in 1..Len(kept) |-> float(kept[i]).value.f]

RECURSIVE Power(_, _)
Power(b, n) == IF n = 0 THEN 1 ELSE b * Power(b, n - 1)

\* r is q^(1/n), to the resolution of a float: r^n <= q < (r + 1/Scale)^n
IsRoot(r, q, n) ==
    /\ Power(r, n) <= q * Power(Scale, n - 1)
    /\ Power(r + 1, n) > q * Power(Scale, n - 1)

\* C5: cagr returns null iff the raw series has fewer than 2 elements, or fewer
\* than 2 values are retained after normalization, or the first or last
\* retained value is <= 0; otherwise it returns (last/first)^(1/n) - 1 with
\* n = the number of retained values minus 1.
C5_CagrOfRetained ==
    pc = "cagr_done" =>
        LET kept == Retained(series.a)
            first == kept[1]
            last == kept[Len(kept)]
            undefined == \/ Len(series.a) < 2
                         \/ Len(kept) < 2
                         \/ first <= 0
                         \/ last <= 0
        IN  /\ (result = Null) <=> undefined
            /\ ~undefined =>
                  /\ result.t = "float"
                  /\ IsRoot(result.f + Scale, (last * Scale) \div first, Len(kept) - 1)

\* cagr([100, null, 144]) = 0.44: the dropped interior entry reduces n to 1.
C5_Witness ==
    /\ pc = "cagr_done"
    /\ series = List(<<Num(100), Null, Num(144)>>)
    /\ result = Float(44)

-----------------------------------------------------------------------------
(* Properties of compute_flags.                                            *)

FlagsDone == pc = "compute_flags_done"
FlagsReturned == FlagsDone /\ ~flags.raised

\* The raw fields of the record, as the engine reads them.
Financials == Or(Get(data, "financials"), Dict(<<>>))
Revenue == Or(Get(Financials, "revenue"), List(<<>>))
Receivables == Or(Get(Financials, "trade_receivables"), List(<<>>))
RptPct == Or(Get(Financials, "rpt_revenue_pct"), List(<<>>))
Proceeds == Or(Get(data, "use_of_proceeds"), List(<<>>))

NumberOrNull(v) == v = Null \/ v.t = "num"
NumericSeries(s) == \A i \in 1..Len(s.a) : NumberOrNull(s.a[i])

\* Every field absent, null, empty or correctly typed.
WellTyped ==
    /\ NumericSeries(Revenue) /\ NumericSeries(Receivables) /\ NumericSeries(RptPct)
    /\ \A i \in 1..Len(Proceeds.a) :
          /\ Proceeds.a[i].t = "dict"
          /\ Get(Proceeds.a[i], "category").t \in {"null", "str"}
          /\ NumberOrNull(Get(Proceeds.a[i], "amount_crore"))

SignalKeys ==
    {"revenue_cagr", "receivables_cagr", "receivables_grow_faster",
     "rec_to_rev_latest", "rpt_share_latest", "rpt_share_high", "gcp_pct", "gcp_high"}

MalformedNumber(v) == v.t = "str" \/ v.t = "list"

\* Some numeric entry is a non-numeric string or a [label, value] pair, and
\* every other entry is well typed.
Malformed ==
    /\ \A i \in 1..Len(Proceeds.a) :
          /\ Proceeds.a[i].t = "dict"
          /\ Get(Proceeds.a[i], "category").t \in {"null", "str"}
    /\ \/ \E i \in 1..Len(Revenue.a) : MalformedNumber(Revenue.a[i])
       \/ \E i \in 1..Len(Receivables.a) : MalformedNumber(Receivables.a[i])
       \/ \E i \in 1..Len(RptPct.a) : MalformedNumber(RptPct.a[i])
       \/ \E i \in 1..Len(Proceeds.a) :
              MalformedNumber(Get(Proceeds.a[i], "amount_crore"))

\* C2 (as claimed): on a record with a malformed numeric entry compute_flags
\* still returns a SignalSet.
C2_MalformedNeverRaises == (FlagsDone /\ Malformed) => ~flags.raised

\* C6: receivables_grow_faster is a boolean, true iff both CAGRs are non-null
\* and receivables_cagr > revenue_cagr + 0.05 (strictly).
C6_GrowFasterIffBeyondBuffer ==
    FlagsReturned =>
        LET f == flags.value.o
        IN  /\ f.receivables_grow_faster.t = "bool"
            /\ f.receivables_grow_faster.b <=>
                  /\ f.revenue_cagr # Null
                  /\ f.receivables_cagr # Null
                  /\ 20 * (f.receivables_cagr.f - f.revenue_cagr.f) > Scale

\* revenue_cagr = 0.10 and receivables_cagr = 0.15: faster, but within the buffer.
C6_Witness ==
    /\ FlagsReturned
    /\ flags.value.o.revenue_cagr = Float(10)
    /\ flags.value.o.receivables_cagr = Float(15)
    /\ flags.value.o.receivables_grow_faster = Bool(FALSE)

\* v is a / b to the resolution of a float, for ints a, b with b # 0
IsQuotient(v, a, b) ==
    IF b > 0 THEN v * b <= a * Scale /\ (v + 1) * b > a * Scale
    ELSE v * b >= a * Scale /\ (v + 1) * b < a * Scale

PresentAndTruthy(s) == Len(s.a) > 0 /\ Last(s) # Null /\ Last(s) # Num(0)

\* C7: rec_to_rev_latest is non-null iff both series are non-empty and the
\* last raw entry of each is present and truthy; then it is the last raw
\* receivables entry divided by the last raw revenue entry.
C7_RecToRevFromRawLatest ==
    FlagsReturned =>
        LET v == flags.value.o.rec_to_rev_latest
            both == PresentAndTruthy(Revenue) /\ PresentAndTruthy(Receivables)
        IN  /\ (v # Null) <=> both
            /\ both => v.t = "float" /\ IsQuotient(v.f, Last(Receivables).n, Last(Revenue).n)

\* The ratio 120 / 100 of the latest raw entries.
C7_Witness ==
    /\ FlagsReturned
    /\ Revenue = List(<<Num(110), Num(100)>>)
    /\ Receivables = List(<<Num(100), Num(120)>>)
    /\ flags.value.o.rec_to_rev_latest = Float(120)

RECURSIVE SumAmounts(_, _)
\* the sum of the amounts (in float units) of the items whose index is in I
SumAmounts(a, I) ==
    IF I = {} THEN 0
    ELSE LET i == CHOOSE j \in I : TRUE
         IN  Units(Get(a[i], "amount_crore")) + SumAmounts(a, I \ {i})

IsGeneral(item) ==
    /\ Get(item, "category").t = "str"
    /\ Contains(lower(Get(item, "category").s), General)

\* C8: gcp_pct = gcp / total * 100 over the entries with a non-null amount
\* when total > 0, else null; gcp_high iff gcp_pct is non-null and > 30.
C8_GcpOverNonNullAmounts ==
    FlagsReturned =>
        LET a == Proceeds.a
            counted == {i \in 1..Len(a) : Get(a[i], "amount_crore") # Null}
            total == SumAmounts(a, counted)
            gcp == SumAmounts(a, {i \in counted : IsGeneral(a[i])})
            f == flags.value.o
        IN  /\ f.gcp_pct = IF total > 0 THEN Float(((gcp * Scale) \div total) * 100)
                           ELSE Null
            /\ f.gcp_high = Bool(f.gcp_pct # Null /\ f.gcp_pct.f > 30 * Scale)

\* General corporate purposes 30 of 100: exactly 30 percent, not high.
C8_Witness ==
    /\ FlagsReturned
    /\ Proceeds = List(<<MkDict([category |-> GCP, amount_crore |-> Num(30)]),
                         MkDict([category |-> Debt, amount_crore |-> Num(70)])>>)
    /\ flags.value.o.gcp_pct = Float(30 * Scale)
    /\ flags.value.o.gcp_high = Bool(FALSE)

\* C9: rpt_share_latest is the last entry of rpt_revenue_pct, unchanged, when
\* the series is non-empty and that entry is non-null, else null;
\* rpt_share_high iff rpt_share_latest is non-null and > 20.
C9_RptLatestPassedThrough ==
    FlagsReturned =>
        LET f == flags.value.o
            present == Len(RptPct.a) > 0 /\ RptPct.a[Len(RptPct.a)] # Null
        IN  /\ f.rpt_share_latest = IF present THEN RptPct.a[Len(RptPct.a)] ELSE Null
            /\ f.rpt_share_high =
                  Bool(f.rpt_share_latest # Null /\ f.rpt_share_latest.n > 20)

\* The latest entry is exactly 20: passed through, and not high.
C9_Witness ==
    /\ FlagsReturned
    /\ RptPct = List(<<Num(25), Num(20)>>)
    /\ flags.value.o.rpt_share_latest = Num(20)
    /\ flags.value.o.rpt_share_high = Bool(FALSE)

-----------------------------------------------------------------------------
(* The adapter on its own.                                                 *)

AdapterTokens == {LB, RB, Comma, Key("a"), Val(Num(1)), Txt, Ws}

InitAdapter ==
    /\ pc = "get_structured_data"
    /\ raw \in {Text(s) : s \in SeqsUpTo(AdapterTokens, MaxRaw)}
    /\ data = NoValue
    /\ flags = NoValue /\ series = NoValue /\ result = NoValue
    /\ Unused

CallParseReply ==
    /\ pc = "get_structured_data"
    /\ data' = ParseReply(raw.s)
    /\ pc' = "get_structured_data_done"
    /\ UNCHANGED <<uploaded_file, text, raw, flags, comment, sent, shown,
                   uncaught, log, series, result>>

NextAdapter == CallParseReply

SpecAdapter == InitAdapter /\ [][NextAdapter]_vars

\* The adapter's outcome as claimed, failing with the error named err.
AdapterAsClaimed(err) ==
    LET opens == Positions(raw.s, LB)
        closes == Positions(raw.s, RB)
        between == SubSeq(raw.s, Min(opens), Max(closes))
    IN  IF opens = {} \/ closes = {} THEN Raised(err)
        ELSE IF json_loads(between).raised THEN Raised(err)
        ELSE json_loads(between)

C3_WitnessNoBraces ==
    /\ pc = "get_structured_data_done"
    /\ raw = Text(<<Txt, Txt>>)
    /\ data = Raised("JSONDecodeError")

-----------------------------------------------------------------------------
(* main(): one script run per user interaction.                            *)

MaxPages == 40

\* "\n\n".join(pages)
RECURSIVE Join(_)
Join(pages) ==
    IF pages = <<>> THEN <<>>
    ELSE IF Len(pages) = 1 THEN pages[1].s
    ELSE pages[1].s \o <<"\n", "\n">> \o Join(Tail(pages))

\* extract_pdf_text: the text of at most the first 40 pages, "" for a page
\* whose extract_text() is None or empty.
extract_pdf_text(doc) ==
    LET n == IF Len(doc) > MaxPages THEN MaxPages ELSE Len(doc)
    IN  Str(Join([i \in 1..n |-> Or(doc[i], Str(<<>>))]))

PageA == Str(<<"a">>)
PageB == Str(<<"b">>)
Docs == {<<PageA>>, <<PageA, Null, PageB>>, [i \in 1..(MaxPages + 1) |-> PageB]}

\* The lexemes of a JSON array of the values of a
RECURSIVE Elements(_)
Elements(a) ==
    IF a = <<>> THEN <<>>
    ELSE IF Len(a) = 1 THEN <<Val(a[1])>>
    ELSE <<Val(a[1]), Comma>> \o Elements(Tail(a))
Array(a) == <<LSQ>> \o Elements(a) \o <<RSQ>>

ProceedsItem(c, amt) ==
    <<LB, Key("category"), Val(c), Comma, Key("amount_crore"), Val(amt), RB>>

\* The reply that spells the documentation's end-to-end record, with the given
\* revenue series, wrapped in prose.
ReplyWith(revenue) ==
    <<Txt, LB, Key("company_name"), Val(Abc), Comma, Key("financials"), LB,
      Key("revenue")>> \o Array(revenue) \o
    <<Comma, Key("trade_receivables")>> \o Array(ExampleRec.a) \o
    <<Comma, Key("rpt_revenue_pct")>> \o Array(ExampleRpt.a) \o
    <<RB, Comma, Key("use_of_proceeds"), LSQ>> \o ProceedsItem(GCP, Num(40)) \o
    <<Comma>> \o ProceedsItem(Debt, Num(60)) \o <<RSQ, RB, Ws, Txt, Ws>>

Replies ==
    {ReplyWith(ExampleRev.a),                           \* the full record
     ReplyWith(<<Num(100), Abc>>),                      \* a malformed revenue entry
     ReplyWith(<<Num(100), Null, Num(144)>>),           \* a gap in the revenue series
     <<LB, Key("financials"), Val(Null), RB>>,          \* a partial record
     <<Ws, LB, RB>>,                                    \* an empty record
     <<Txt, Txt>>,                                      \* no braces
     <<Txt, LB, Key("sector"), Val(Abc)>>,              \* no closing brace
     <<LB, Key("sector"), Txt, RB>>,                    \* not JSON between the braces
     <<LB, RB, Txt, LB, RB>>}                           \* two objects

Comments == {Str(<<"o","k">>), Str(<<"r","i","s","k","y">>)}

Call(f) == [call |-> f]
Exception(type) == [t |-> "exception", type |-> type]

\* AfterAdapter with a fault: the failure swallowed, the run going on with {}.
AfterAdapterSwallowed(outcome) ==
    IF outcome.raised
    THEN [pc |-> "compute_flags", data |-> Returned(Dict(<<>>)), uncaught |-> NoValue]
    ELSE [pc |-> "compute_flags", data |-> outcome, uncaught |-> NoValue]

\* Line 198, data = get_structured_data(text), with no handler around it: an
\* exception leaves main(), a returned record is bound to data.
AfterAdapter(outcome) ==
    IF outcome.raised
    THEN [pc |-> "aborted", data |-> outcome, uncaught |-> Exception(outcome.exc)]
    ELSE [pc |-> "compute_flags", data |-> outcome, uncaught |-> NoValue]

\* CommentaryArgs with a fault: the flags recomputed from an empty record.
CommentaryArgsStale(d, f) == [data |-> d, flags |-> compute_flags(Dict(<<>>)).value]

\* Lines 165-172: what the commentary prompt serialises.
CommentaryArgs(d, f) == [data |-> d, flags |-> f]

\* Lines 206-226: what the display calls are given.
Display(d, f, c) ==
    [company_name |-> Get(d, "company_name"),
     ipo_year |-> Get(d, "ipo_year"),
     sector |-> Get(d, "sector"),
     financials |-> Or(Get(d, "financials"), Dict(<<>>)),
     use_of_proceeds |-> Or(Get(d, "use_of_proceeds"), List(<<>>)),
     flags |-> f,
     comment |-> c,
     key_risk_factors |-> Or(Get(d, "key_risk_factors"), List(<<>>))]

Init ==
    /\ pc = "idle"
    /\ uploaded_file = Null
    /\ text = NoValue /\ raw = NoValue /\ data = NoValue /\ flags = NoValue
    /\ comment = NoValue /\ sent = NoValue /\ shown = NoValue
    /\ uncaught = NoValue /\ log = <<>>
    /\ series = NoValue /\ result = NoValue

Resting == pc \in {"idle", "done", "aborted"}

\* The user picks a file: the script reruns, the button is not pressed.
Upload(doc) ==
    /\ Resting
    /\ uploaded_file' = doc
    /\ pc' = "idle"
    /\ text' = NoValue /\ raw' = NoValue /\ data' = NoValue /\ flags' = NoValue
    /\ comment' = NoValue /\ sent' = NoValue /\ shown' = NoValue
    /\ uncaught' = NoValue /\ log' = <<>>
    /\ UNCHANGED <<series, result>>

\* The user presses Analyze: a new run, up to text = extract_pdf_text(...).
Analyze ==
    /\ Resting
    /\ Truthy(uploaded_file)
    /\ text' = extract_pdf_text(uploaded_file.a)
    /\ log' = <<Call("extract_pdf_text")>>
    /\ pc' = "get_structured_data"
    /\ raw' = NoValue /\ data' = NoValue /\ flags' = NoValue
    /\ comment' = NoValue /\ sent' = NoValue /\ shown' = NoValue
    /\ uncaught' = NoValue
    /\ UNCHANGED <<uploaded_file, series, result>>

\* data = get_structured_data(text): the service replies and the reply is parsed.
Extract(reply) ==
    /\ pc = "get_structured_data"
    /\ raw' = Text(reply)
    /\ LET after == AfterAdapter(ParseReply(reply))
       IN  /\ data' = after.data
           /\ uncaught' = after.uncaught
           /\ pc' = after.pc
    /\ log' = Append(log, Call("get_structured_data"))
    /\ UNCHANGED <<uploaded_file, text, flags, comment, sent, shown, series, result>>

\* A call of the AI service raises: the exception leaves main().
ServiceFails ==
    /\ pc \in {"get_structured_data", "get_commentary"}
    /\ log' = Append(log, Call(pc))
    /\ uncaught' = Exception("ServiceError")
    /\ pc' = "aborted"
    /\ UNCHANGED <<uploaded_file, text, raw, data, flags, comment, sent, shown,
                   series, result>>

\* flags = compute_flags(data)
Compute ==
    /\ pc = "compute_flags"
    /\ flags' = compute_flags(data.value)
    /\ log' = Append(log, Call("compute_flags"))
    /\ IF flags'.raised
       THEN pc' = "aborted" /\ uncaught' = Exception(flags'.exc)
       ELSE pc' = "get_commentary" /\ UNCHANGED uncaught
    /\ UNCHANGED <<uploaded_file, text, raw, data, comment, sent, shown, series, result>>

\* comment = get_commentary(data, flags)
Comment(c) ==
    /\ pc = "get_commentary"
    /\ sent' = CommentaryArgs(data.value, flags.value)
    /\ comment' = c
    /\ log' = Append(log, Call("get_commentary"))
    /\ pc' = "present"
    /\ UNCHANGED <<uploaded_file, text, raw, data, flags, shown, uncaught, series, result>>

\* The two columns and the risk factors are written.
Present ==
    /\ pc = "present"
    /\ shown' = Display(data.value, flags.value, comment)
    /\ log' = Append(log, Call("present"))
    /\ pc' = "done"
    /\ UNCHANGED <<uploaded_file, text, raw, data, flags, comment, sent, uncaught,
                   series, result>>

Next ==
    \/ \E doc \in Docs : Upload(List(doc))
    \/ Analyze
    \/ \E reply \in Replies : Extract(reply)
    \/ ServiceFails
    \/ Compute
    \/ \E c \in Comments : Comment(c)
    \/ Present

Spec == Init /\ [][Next]_vars

-----------------------------------------------------------------------------
(* Properties of main().                                                   *)

AdapterFailed == raw # NoValue /\ ParseReply(raw.s).raised

\* C4: when the adapter fails on the service's reply the run is aborted:
\* compute_flags and get_commentary are not called, the extraction call is
\* made once and not again, nothing is displayed, and the exception leaves
\* main() to the shell that runs it.
C4_AdapterFailureAborts ==
    AdapterFailed =>
        /\ pc = "aborted"
        /\ log = <<Call("extract_pdf_text"), Call("get_structured_data")>>
        /\ flags = NoValue /\ comment = NoValue /\ sent = NoValue /\ shown = NoValue
        /\ uncaught = Exception(ParseReply(raw.s).exc)
        /\ ~ENABLED (\E reply \in Replies : Extract(reply))
        /\ ~ENABLED Compute
        /\ ~ENABLED (\E c \in Comments : Comment(c))
        /\ ~ENABLED Present

\* A reply of two objects, "{} text {}", aborts the run.
C4_Witness ==
    /\ raw = Text(<<LB, RB, Txt, LB, RB>>)
    /\ pc = "aborted"
    /\ uncaught = Exception("JSONDecodeError")

Stages ==
    <<Call("extract_pdf_text"), Call("get_structured_data"), Call("compute_flags"),
      Call("get_commentary"), Call("present")>>

\* C10: in a run that completes the stages happen once each, in order; the
\* engine ran on the adapter's record of the service's raw text; the
\* commentary service and the display got that record and the engine's
\* SignalSet unchanged.
C10_StagesInOrderVerbatim ==
    pc = "done" =>
        /\ log = Stages
        /\ data = ParseReply(raw.s) /\ ~data.raised
        /\ flags = compute_flags(ParseReply(raw.s).value) /\ ~flags.raised
        /\ sent.data = ParseReply(raw.s).value
        /\ sent.flags = flags.value
        /\ shown.flags = flags.value
        /\ shown.comment = comment
        /\ \A k \in {"company_name", "ipo_year", "sector"} :
              shown[k] = Get(ParseReply(raw.s).value, k)
        /\ \A k \in {"financials", "use_of_proceeds", "key_risk_factors"} :
              Truthy(Get(ParseReply(raw.s).value, k)) =>
                  shown[k] = Get(ParseReply(raw.s).value, k)

\* The documentation's end-to-end record, displayed with gcp_pct = 40.0.
C10_Witness ==
    /\ pc = "done"
    /\ raw = Text(ReplyWith(ExampleRev.a))
    /\ sent.flags.o.gcp_pct = Float(40 * Scale)
    /\ shown.flags.o.receivables_grow_faster = Bool(TRUE)
    /\ shown.company_name = Abc

=============================================================================
